---- MODULE Spec2Model ----
(***************************************************************************)
(* Model of the googlesiteverification provider: the                      *)
(* googlesiteverification_domain resource                                  *)
(* (internal/provider/domain_resource.go, the version with timeouts and    *)
(* the retry loop, lines 204-458), its data sources and its Configure.     *)
(*                                                                         *)
(* Encoding of Go values:                                                  *)
(*   - a string that the code inspects character by character (ids,        *)
(*     domains, import identifiers) is a sequence of one-character         *)
(*     strings;                                                            *)
(*   - an error message is the sequence of its words, so strings.Contains  *)
(*     is a contiguous-subsequence test;                                   *)
(*   - types.String is its .Value ("" for null/unknown);                   *)
(*   - time is in seconds, relative to the start of the handler.           *)
(*                                                                         *)
(* Spec is the resource under a configured provider.  DataSpec is the      *)
(* provider's Configure and the Read of the data sources                   *)
(* (internal/provider/provider.go and the two data-source files).          *)
(***************************************************************************)
EXTENDS Integers, Sequences, FiniteSets, TLC

VARIABLES
    state,      \* the host's stored record: <<>> (none) or <<DomainResourceModel>>
    op,         \* handler being executed: "none", "create", "read", "delete", "import"
    pc,         \* position in the handler
    data,       \* the handler's local `data` (DomainResourceModel)
    reqID,      \* req.ID of ImportState
    now,        \* seconds elapsed since the handler started
    deadline,   \* deadline of ctx after context.WithTimeout (NoDeadline: none)
    cancelled,  \* the caller cancelled the parent context
    wake,       \* expiry of the pending time.After(sleepSeconds)
    diags,      \* resp.Diagnostics: sequence of errors added
    calls,      \* number of .Do() invocations of this handler run
    sleeps,     \* number of backoff sleeps started in this handler run
    lat,        \* total time spent inside remote calls in this handler run
    lastCall,   \* the most recent remote call: method, argument, time, ctx state
    lastResp,   \* what the most recent remote call returned
    written,    \* resp.State.Set was executed in this handler run
    plan,       \* req.Plan of Create and Update, req.Config of a data-source Read
    dsState,    \* resp.State of a data-source Read: <<>> or <<model>>
    provider    \* the provider: its configuration and the client it handed out

vars == <<state, op, pc, data, reqID, now, deadline, cancelled, wake, diags,
          calls, sleeps, lat, lastCall, lastResp, written, plan, dsState,
          provider>>

(***************************************************************************)
(* Bounds of the model.                                                    *)
(***************************************************************************)
MaxIdLen == 2

(***************************************************************************)
(* Program constants.                                                      *)
(***************************************************************************)
sleepSeconds == 60

errTokenNotFound ==
    <<"The", "necessary", "verification", "token", "could", "not", "be",
      "found", "on", "your", "site.">>

errTokenExists ==
    <<"You", "cannot", "unverify", "your", "ownership", "of", "this", "site",
      "until", "your", "verification", "token", "(meta", "tag,", "HTML",
      "file,", "Google", "Analytics", "tracking", "code,", "Google", "Tag",
      "Manager", "container", "code,", "or", "DNS", "record)", "has", "been",
      "removed.">>

DnsPrefix == <<"d", "n", "s", ":", "/", "/">>

NoDeadline == 0 - 1

(***************************************************************************)
(* strings helpers, as the Go standard library computes them.              *)
(***************************************************************************)
HasPrefix(s, p) == Len(s) >= Len(p) /\ SubSeq(s, 1, Len(p)) = p

TrimPrefix(s, p) == IF HasPrefix(s, p) THEN SubSeq(s, Len(p) + 1, Len(s)) ELSE s

Contains(s, sub) ==
    \E i \in 0..(Len(s) - Len(sub)) : SubSeq(s, i + 1, i + Len(sub)) = sub

(***************************************************************************)
(* net/url.QueryUnescape: %XX -> byte XX, '+' -> ' ', a '%' not followed   *)
(* by two hex digits is an EscapeError.                                    *)
(***************************************************************************)
HexVal ==
    [c \in {"0","1","2","3","4","5","6","7","8","9"} |->
        CASE c = "0" -> 0 [] c = "1" -> 1 [] c = "2" -> 2 [] c = "3" -> 3
          [] c = "4" -> 4 [] c = "5" -> 5 [] c = "6" -> 6 [] c = "7" -> 7
          [] c = "8" -> 8 [] c = "9" -> 9] @@
    [c \in {"a","b","c","d","e","f"} |->
        CASE c = "a" -> 10 [] c = "b" -> 11 [] c = "c" -> 12
          [] c = "d" -> 13 [] c = "e" -> 14 [] c = "f" -> 15] @@
    [c \in {"A","B","C","D","E","F"} |->
        CASE c = "A" -> 10 [] c = "B" -> 11 [] c = "C" -> 12
          [] c = "D" -> 13 [] c = "E" -> 14 [] c = "F" -> 15]

ishex(c) == c \in DOMAIN HexVal

\* The character of a byte value; bytes outside the table do not occur for
\* the identifiers of this model.
ByteChar(b) ==
    CASE b = 47  -> "/"
      [] b = 51  -> "3"
      [] b = 58  -> ":"
      [] b = 61  -> "="
      [] b = 211 -> "\\xD3"
      [] b = 221 -> "\\xDD"
      [] OTHER   -> "\\x??"

\* An unescape that keeps a malformed '%' as it is instead of failing.
RECURSIVE unescapeFrom_Lenient(_, _)
unescapeFrom_Lenient(s, i) ==
    IF i > Len(s) THEN [ok |-> TRUE, val |-> <<>>]
    ELSE IF s[i] = "%" /\ i + 2 <= Len(s) /\ ishex(s[i + 1]) /\ ishex(s[i + 2])
    THEN [ok |-> TRUE,
          val |-> <<ByteChar(16 * HexVal[s[i + 1]] + HexVal[s[i + 2]])>>
                  \o unescapeFrom_Lenient(s, i + 3).val]
    ELSE [ok |-> TRUE,
          val |-> <<IF s[i] = "+" THEN " " ELSE s[i]>> \o unescapeFrom_Lenient(s, i + 1).val]

RECURSIVE unescapeFrom(_, _)
unescapeFrom(s, i) ==
    IF i > Len(s) THEN [ok |-> TRUE, val |-> <<>>]
    ELSE IF s[i] = "%" THEN
        IF i + 2 > Len(s) \/ ~ishex(s[i + 1]) \/ ~ishex(s[i + 2])
        THEN [ok |-> FALSE, val |-> <<>>]
        ELSE LET rest == unescapeFrom(s, i + 3)
             IN  IF rest.ok
                 THEN [ok |-> TRUE,
                       val |-> <<ByteChar(16 * HexVal[s[i + 1]] + HexVal[s[i + 2]])>>
                               \o rest.val]
                 ELSE rest
    ELSE LET rest == unescapeFrom(s, i + 1)
         IN  IF rest.ok
             THEN [ok |-> TRUE,
                   val |-> <<IF s[i] = "+" THEN " " ELSE s[i]>> \o rest.val]
             ELSE rest

QueryUnescape(s) == unescapeFrom(s, 1)

(***************************************************************************)
(* Errors.  A *googleapi.Error has api = TRUE, a Code and a Message; any   *)
(* other error value (transport failure, context error) has api = FALSE.   *)
(***************************************************************************)
NoErr == [nil |-> TRUE, api |-> FALSE, Code |-> 0, Message |-> <<>>]

ApiErr(code, msg) == [nil |-> FALSE, api |-> TRUE, Code |-> code, Message |-> msg]

PlainErr(msg) == [nil |-> FALSE, api |-> FALSE, Code |-> 0, Message |-> msg]

DeadlineExceeded == PlainErr(<<"context", "deadline", "exceeded">>)

Canceled == PlainErr(<<"context", "canceled">>)

EscapeError == PlainErr(<<"invalid", "URL", "escape">>)

\* checkErr without the test of the code.
checkErr_AnyCode(err, msg) == err.api /\ Contains(err.Message, msg)

checkErr(err, msg) == err.api /\ err.Code = 400 /\ Contains(err.Message, msg)

(***************************************************************************)
(* Inputs: what the host and the remote service can supply.                *)
(***************************************************************************)
Unset == 0 - 1

Domains == {<<"a">>, <<"b", ".", "c">>}

Tokens == {"abc123", "tok2"}

\* The timeouts block of the configuration: each of create/read/delete is a
\* duration in seconds or Unset.
NoTimeouts == [create |-> Unset, read |-> Unset, delete |-> Unset]

TimeoutCfgs ==
    { NoTimeouts,
      [NoTimeouts EXCEPT !.create = 90],
      [NoTimeouts EXCEPT !.create = 120, !.delete = 120],
      [NoTimeouts EXCEPT !.delete = 90],
      [NoTimeouts EXCEPT !.read = 30] }

\* How long a remote call may take before it answers.
Latencies == {0, 30}

IdAlphabet == {"%", "3", "D", "+"}

\* Identifiers the Insert call may return.
InsertIds ==
    UNION { [1..n -> IdAlphabet] : n \in 0..MaxIdLen } \cup
    { <<"g", "s", "v", "%", "3", "D", "x", "y", "z">>,
      <<"d", "n", "s", "%", "3", "A", "%", "2", "F", "%", "2", "F", "a">>,
      <<"d", "n", "s", ":", "/", "/", "a">>,
      <<"a", "%", "z", "z">>,
      <<"a", "%", "3">> }

\* Identifiers the host may pass to ImportState.
ImportIds ==
    { DnsPrefix \o d : d \in Domains } \cup Domains \cup
    { DnsPrefix,
      DnsPrefix \o DnsPrefix \o <<"a">>,
      <<"d", "n", "s", ":", "/", "a">>,
      <<"x">> \o DnsPrefix \o <<"a">>,
      <<"D", "N", "S", ":", "/", "/", "a">> }

Messages ==
    { errTokenNotFound,
      errTokenExists,
      <<"Bad", "Request:">> \o errTokenNotFound \o <<"Retry", "later.">>,
      <<"Bad", "Request:">> \o errTokenExists,
      SubSeq(errTokenNotFound, 1, Len(errTokenNotFound) - 1),
      SubSeq(errTokenExists, 2, Len(errTokenExists)),
      <<"Invalid", "value">> }

\* Errors a remote call can return while its context is live.
RemoteErrors ==
    { ApiErr(c, m) : c \in {400, 404}, m \in Messages } \cup
    { PlainErr(errTokenNotFound), PlainErr(errTokenExists),
      PlainErr(<<"connection", "refused">>) }

Resp(err, id, token) == [err |-> err, Id |-> id, Token |-> token]

InsertResponses ==
    { Resp(NoErr, i, "") : i \in InsertIds } \cup { Resp(e, <<>>, "") : e \in RemoteErrors }

DeleteResponses == { Resp(NoErr, <<>>, "") } \cup { Resp(e, <<>>, "") : e \in RemoteErrors }

GetResponses == { Resp(NoErr, <<>>, "") } \cup { Resp(e, <<>>, "") : e \in RemoteErrors }

GetTokenResponses ==
    { Resp(NoErr, <<>>, t) : t \in Tokens } \cup { Resp(e, <<>>, "") : e \in RemoteErrors }

(***************************************************************************)
(* The data model and the start state.                                     *)
(***************************************************************************)
DomainResourceModel(domain, token, id, tm) ==
    [Domain |-> domain, Token |-> token, Id |-> id, Timeouts |-> tm]

NoData == DomainResourceModel(<<>>, "", <<>>, NoTimeouts)

\* The provider: whether Configure ran, the credentials attribute of its
\* configuration ("" when absent) and the credential its API client was
\* built from ("" when there is no client).
NoProvider == [configured |-> FALSE, Credentials |-> "", client |-> ""]

\* The client siteverification.NewService builds without options: ambient
\* default credentials.
DefaultCredentials == "application-default"

\* The provider after Configure of a configuration without credentials.
ConfiguredProvider ==
    [configured |-> TRUE, Credentials |-> "", client |-> DefaultCredentials]

NoCall == [method |-> "none", arg |-> <<>>, at |-> 0, live |-> TRUE]

NoResp == Resp(NoErr, <<>>, "")

Init ==
    /\ state = <<>>
    /\ op = "none"
    /\ pc = "idle"
    /\ data = NoData
    /\ reqID = <<>>
    /\ now = 0
    /\ deadline = NoDeadline
    /\ cancelled = FALSE
    /\ wake = 0
    /\ diags = <<>>
    /\ calls = 0
    /\ sleeps = 0
    /\ lat = 0
    /\ lastCall = NoCall
    /\ lastResp = NoResp
    /\ written = FALSE
    /\ plan = NoData
    /\ dsState = <<>>
    /\ provider = ConfiguredProvider

(***************************************************************************)
(* Contexts and remote calls.                                              *)
(***************************************************************************)
\* ctx.Done() is closed.
CtxDone == cancelled \/ (deadline # NoDeadline /\ now >= deadline)

CtxErr == IF cancelled THEN Canceled ELSE DeadlineExceeded

\* timeouts.Create / timeouts.Read / timeouts.Delete: the configured value,
\* or the default when the attribute is not set.
TimeoutsCreate(tm, def) == IF tm.create = Unset THEN def ELSE tm.create

TimeoutsRead(tm, def) == IF tm.read = Unset THEN def ELSE tm.read

TimeoutsDelete(tm, def) == IF tm.delete = Unset THEN def ELSE tm.delete

\* The outcomes of x.Context(ctx).Do(): with a context that is already done
\* the client returns the context's error without reaching the service; a
\* call that is still running at the deadline is aborted with the context's
\* error; otherwise the service answers after some latency.
CallOutcomes(responses) ==
    IF CtxDone
    THEN { [resp |-> Resp(CtxErr, <<>>, ""), at |-> now] }
    ELSE { [resp |-> r, at |-> now + l] :
              r \in responses,
              l \in { k \in Latencies : deadline = NoDeadline \/ now + k <= deadline } }
         \cup
         { [resp |-> Resp(DeadlineExceeded, <<>>, ""), at |-> deadline] :
              l \in { k \in Latencies : deadline # NoDeadline /\ now + k >= deadline } }

\* Bookkeeping of one .Do() invocation.
Called(method, arg, o) ==
    /\ calls' = calls + 1
    /\ lat' = lat + (o.at - now)
    /\ now' = o.at
    /\ lastCall' = [method |-> method, arg |-> arg, at |-> now, live |-> ~CtxDone]
    /\ lastResp' = o.resp

Diag(what, err) == [summary |-> "Client Error", what |-> what, err |-> err]

\* The host invokes a handler.
Invoke(name) ==
    /\ pc = "idle"
    /\ op' = name
    /\ UNCHANGED <<now, cancelled, wake, diags, calls, sleeps, lat, lastCall,
                   lastResp, written>>

(***************************************************************************)
(* DomainResource.Create                                                   *)
(***************************************************************************)
\* The default passed to timeouts.Create.
DefaultCreateTimeout == sleepSeconds * 5

\* checkErr(err, errTokenNotFound): the Insert is tried again.
CreateRetryable(err) == checkErr(err, errTokenNotFound)

\* Plan.Get, timeouts.Create, context.WithTimeout.
CreateBegin ==
    /\ state = <<>>
    /\ Invoke("create")
    /\ \E d \in Domains, t \in Tokens, tm \in TimeoutCfgs :
          /\ plan' = DomainResourceModel(d, t, <<>>, tm)
          /\ data' = plan'
          /\ deadline' = TimeoutsCreate(tm, DefaultCreateTimeout)
    /\ pc' = "attempting"
    /\ UNCHANGED <<state, reqID, dsState, provider>>

\* A record built afresh from the result, which loses the planned token.
CreateStored_FreshModel(d, id) == DomainResourceModel(d.Domain, "", id, d.Timeouts)

\* data.Id = types.String{Value: id}: the planned record with its id set.
CreateStored(d, id) == [d EXCEPT !.Id = id]

\* A loop body that stores the record before it looks at the decoding error.
CreateResult_SetBeforeCheck(o) ==
    IF ~o.resp.err.nil
    THEN IF CreateRetryable(o.resp.err)
         THEN /\ pc' = "waiting"
              /\ wake' = o.at + sleepSeconds
              /\ sleeps' = sleeps + 1
              /\ UNCHANGED <<state, data, diags, written>>
         ELSE /\ diags' = Append(diags, Diag("create", o.resp.err))
              /\ pc' = "done"
              /\ UNCHANGED <<state, data, wake, sleeps, written>>
    ELSE LET u == QueryUnescape(o.resp.Id)
         IN  /\ data' = CreateStored(data, u.val)
             /\ state' = <<data'>>
             /\ written' = TRUE
             /\ diags' = IF u.ok THEN diags
                         ELSE Append(diags, Diag("urldecode", EscapeError))
             /\ pc' = "done"
             /\ UNCHANGED <<wake, sleeps>>

\* What the loop body does with the outcome of Insert: classification of the
\* error, QueryUnescape and, on success, leaving the loop and State.Set.
CreateResult(o) ==
    IF ~o.resp.err.nil
    THEN IF CreateRetryable(o.resp.err)
         THEN /\ pc' = "waiting"
              /\ wake' = o.at + sleepSeconds
              /\ sleeps' = sleeps + 1
              /\ UNCHANGED <<state, data, diags, written>>
         ELSE /\ diags' = Append(diags, Diag("create", o.resp.err))
              /\ pc' = "done"
              /\ UNCHANGED <<state, data, wake, sleeps, written>>
    ELSE LET u == QueryUnescape(o.resp.Id)
         IN  IF ~u.ok
             THEN /\ diags' = Append(diags, Diag("urldecode", EscapeError))
                  /\ pc' = "done"
                  /\ UNCHANGED <<state, data, wake, sleeps, written>>
             ELSE /\ data' = CreateStored(data, u.val)
                  /\ state' = <<data'>>
                  /\ written' = TRUE
                  /\ pc' = "done"
                  /\ UNCHANGED <<diags, wake, sleeps>>

\* One iteration of the loop up to the select.
CreateInsert ==
    /\ op = "create" /\ pc = "attempting"
    /\ \E o \in CallOutcomes(InsertResponses) :
          /\ Called("Insert", data.Domain, o)
          /\ CreateResult(o)
    /\ UNCHANGED <<op, reqID, deadline, cancelled>>
    /\ UNCHANGED <<plan, dsState, provider>>

\* A backoff that sleeps its 60 seconds without looking at ctx.
BackoffSelect_SleepOnly ==
    /\ pc = "waiting"
    /\ now' = wake
    /\ pc' = "attempting"
    /\ UNCHANGED <<state, op, data, reqID, deadline, cancelled, wake, diags,
                   calls, sleeps, lat, lastCall, lastResp, written>>
    /\ UNCHANGED <<plan, dsState, provider>>

\* select { case <-ctx.Done(): return; case <-time.After(sleepSeconds): }
\* When both channels are ready the runtime picks either.
BackoffSelect ==
    /\ pc = "waiting"
    /\ \/ /\ CtxDone \/ (deadline # NoDeadline /\ deadline <= wake)
          /\ now' = IF CtxDone THEN now ELSE deadline
          /\ pc' = "done"
       \/ /\ ~CtxDone
          /\ deadline = NoDeadline \/ wake <= deadline
          /\ now' = wake
          /\ pc' = "attempting"
    /\ UNCHANGED <<state, op, data, reqID, deadline, cancelled, wake, diags,
                   calls, sleeps, lat, lastCall, lastResp, written>>
    /\ UNCHANGED <<plan, dsState, provider>>

CreateWait == op = "create" /\ BackoffSelect

(***************************************************************************)
(* DomainResource.Read                                                     *)
(***************************************************************************)
\* A read default of one sleep interval.
DefaultReadTimeout_OneSleep == sleepSeconds

\* The default passed to timeouts.Read.
DefaultReadTimeout == sleepSeconds * 5

\* State.Get, timeouts.Read, context.WithTimeout.
ReadBegin ==
    /\ state # <<>>
    /\ Invoke("read")
    /\ data' = state[1]
    /\ deadline' = TimeoutsRead(state[1].Timeouts, DefaultReadTimeout)
    /\ pc' = "attempting"
    /\ UNCHANGED <<state, reqID, plan, dsState, provider>>

\* A Read that stores the record without its token.
ReadStored_DropsToken(d) == [d EXCEPT !.Token = ""]

\* State.Set(ctx, &data): the record read from the prior state, as it is.
ReadStored(d) == d

\* A Read that tries again when Get fails with the TokenNotFound error.
ReadGet_Retrying ==
    /\ op = "read" /\ pc = "attempting"
    /\ \E o \in CallOutcomes(GetResponses) :
          /\ Called("Get", data.Id, o)
          /\ IF ~o.resp.err.nil
             THEN IF checkErr(o.resp.err, errTokenNotFound)
                  THEN /\ pc' = "attempting"
                       /\ UNCHANGED <<state, written, diags>>
                  ELSE /\ diags' = Append(diags, Diag("read", o.resp.err))
                       /\ pc' = "done"
                       /\ UNCHANGED <<state, written>>
             ELSE /\ state' = <<ReadStored(data)>>
                  /\ written' = TRUE
                  /\ pc' = "done"
                  /\ UNCHANGED diags
    /\ UNCHANGED <<op, data, reqID, deadline, cancelled, wake, sleeps>>
    /\ UNCHANGED <<plan, dsState, provider>>

\* The single Get and, on success, State.Set of the unchanged data.
ReadGet ==
    /\ op = "read" /\ pc = "attempting"
    /\ \E o \in CallOutcomes(GetResponses) :
          /\ Called("Get", data.Id, o)
          /\ IF ~o.resp.err.nil
             THEN /\ diags' = Append(diags, Diag("read", o.resp.err))
                  /\ UNCHANGED <<state, written>>
             ELSE /\ state' = <<ReadStored(data)>>
                  /\ written' = TRUE
                  /\ UNCHANGED diags
    /\ pc' = "done"
    /\ UNCHANGED <<op, data, reqID, deadline, cancelled, wake, sleeps>>
    /\ UNCHANGED <<plan, dsState, provider>>

(***************************************************************************)
(* DomainResource.Update                                                   *)
(***************************************************************************)
\* An Update that stores the plan it was given.
UpdateState_AppliesPlan(st, pl) == <<pl>>

\* The handler's body is empty: the response keeps the prior state.
UpdateState(st, pl) == st

\* The whole handler; the plan keeps the stored id (UseStateForUnknown).
Update ==
    /\ state # <<>>
    /\ Invoke("update")
    /\ \E d \in Domains, t \in Tokens, tm \in TimeoutCfgs :
          plan' = DomainResourceModel(d, t, state[1].Id, tm)
    /\ state' = UpdateState(state, plan')
    /\ pc' = "done"
    /\ UNCHANGED <<data, reqID, deadline, dsState, provider>>

(***************************************************************************)
(* DomainResource.Delete                                                   *)
(***************************************************************************)
\* The default passed to timeouts.Delete.
DefaultDeleteTimeout == sleepSeconds * 5

\* Delete classified with the message of Create.
DeleteRetryable_CreateMessage(err) == checkErr(err, errTokenNotFound)

\* checkErr(err, errTokenExists): the Delete is tried again.
DeleteRetryable(err) == checkErr(err, errTokenExists)

\* State.Get, timeouts.Delete, context.WithTimeout.
DeleteBegin ==
    /\ state # <<>>
    /\ Invoke("delete")
    /\ data' = state[1]
    /\ deadline' = TimeoutsDelete(state[1].Timeouts, DefaultDeleteTimeout)
    /\ pc' = "attempting"
    /\ UNCHANGED <<state, reqID, plan, dsState, provider>>

\* One iteration of the loop up to the select.
DeleteCall ==
    /\ op = "delete" /\ pc = "attempting"
    /\ \E o \in CallOutcomes(DeleteResponses) :
          /\ Called("Delete", data.Id, o)
          /\ IF ~o.resp.err.nil
             THEN IF DeleteRetryable(o.resp.err)
                  THEN /\ pc' = "waiting"
                       /\ wake' = o.at + sleepSeconds
                       /\ sleeps' = sleeps + 1
                       /\ UNCHANGED diags
                  ELSE /\ diags' = Append(diags, Diag("delete", o.resp.err))
                       /\ pc' = "done"
                       /\ UNCHANGED <<wake, sleeps>>
             ELSE /\ pc' = "done"
                  /\ UNCHANGED <<diags, wake, sleeps>>
    /\ UNCHANGED <<state, op, data, reqID, deadline, cancelled, written>>
    /\ UNCHANGED <<plan, dsState, provider>>

DeleteWait == op = "delete" /\ BackoffSelect

(***************************************************************************)
(* DomainResource.ImportState                                              *)
(***************************************************************************)
\* The domain taken to be the identifier as given.
ImportDomain_NoTrim(id) == id

\* domain := strings.TrimPrefix(req.ID, "dns://")
ImportDomain(id) == TrimPrefix(id, DnsPrefix)

\* The record handed to State.Set; Timeouts keeps its zero value.
ImportRecord(id, domain, token) == DomainResourceModel(domain, token, id, NoTimeouts)

\* The host passes req.ID; the handler uses the caller's ctx as it is.
ImportBegin ==
    /\ state = <<>>
    /\ Invoke("import")
    /\ \E id \in ImportIds : reqID' = id
    /\ data' = NoData
    /\ deadline' = NoDeadline
    /\ pc' = "get"
    /\ UNCHANGED <<state, plan, dsState, provider>>

\* Get(req.ID), then strings.TrimPrefix(req.ID, "dns://").
ImportGet ==
    /\ op = "import" /\ pc = "get"
    /\ \E o \in CallOutcomes(GetResponses) :
          /\ Called("Get", reqID, o)
          /\ IF ~o.resp.err.nil
             THEN /\ diags' = Append(diags, Diag("import", o.resp.err))
                  /\ pc' = "done"
                  /\ UNCHANGED data
             ELSE /\ data' = [data EXCEPT !.Domain = ImportDomain(reqID)]
                  /\ pc' = "gettoken"
                  /\ UNCHANGED diags
    /\ UNCHANGED <<state, op, reqID, deadline, cancelled, wake, sleeps, written>>
    /\ UNCHANGED <<plan, dsState, provider>>

\* GetToken(domain) and State.Set of the synthesized record.
ImportGetToken ==
    /\ op = "import" /\ pc = "gettoken"
    /\ \E o \in CallOutcomes(GetTokenResponses) :
          /\ Called("GetToken", data.Domain, o)
          /\ IF ~o.resp.err.nil
             THEN /\ diags' = Append(diags, Diag("import", o.resp.err))
                  /\ UNCHANGED <<state, data, written>>
             ELSE /\ data' = ImportRecord(reqID, data.Domain, o.resp.Token)
                  /\ state' = <<data'>>
                  /\ written' = TRUE
                  /\ UNCHANGED diags
    /\ pc' = "done"
    /\ UNCHANGED <<op, reqID, deadline, cancelled, wake, sleeps>>
    /\ UNCHANGED <<plan, dsState, provider>>

(***************************************************************************)
(* The host.                                                               *)
(***************************************************************************)
\* The caller cancels the context passed to the handler.
Cancel ==
    /\ pc \in {"attempting", "waiting", "get", "gettoken"}
    /\ ~cancelled
    /\ cancelled' = TRUE
    /\ UNCHANGED <<state, op, pc, data, reqID, now, deadline, wake, diags,
                   calls, sleeps, lat, lastCall, lastResp, written>>
    /\ UNCHANGED <<plan, dsState, provider>>

\* The handler has returned: its locals and its response are gone.  After a
\* Delete that reported no error the host drops the stored record.
Return ==
    /\ pc = "done"
    /\ pc' = "idle"
    /\ state' = IF op = "delete" /\ diags = <<>> THEN <<>> ELSE state
    /\ op' = "none"
    /\ data' = NoData
    /\ reqID' = <<>>
    /\ now' = 0
    /\ deadline' = NoDeadline
    /\ cancelled' = FALSE
    /\ wake' = 0
    /\ diags' = <<>>
    /\ calls' = 0
    /\ sleeps' = 0
    /\ lat' = 0
    /\ lastCall' = NoCall
    /\ lastResp' = NoResp
    /\ written' = FALSE
    /\ plan' = NoData
    /\ dsState' = <<>>
    /\ UNCHANGED provider

Next ==
    \/ CreateBegin
    \/ CreateInsert
    \/ CreateWait
    \/ ReadBegin
    \/ ReadGet
    \/ Update
    \/ DeleteBegin
    \/ DeleteCall
    \/ DeleteWait
    \/ ImportBegin
    \/ ImportGet
    \/ ImportGetToken
    \/ Cancel
    \/ Return

Spec == Init /\ [][Next]_vars

\* Every remote call of the retry loops returns and every select completes:
\* a handler that can take its next step takes it.
FairSpec ==
    /\ Spec
    /\ WF_vars(CreateInsert)
    /\ WF_vars(CreateWait)
    /\ WF_vars(DeleteCall)
    /\ WF_vars(DeleteWait)

(***************************************************************************)
(* GoogleSiteVerificationProvider.Configure                                *)
(***************************************************************************)
\* The credentials attribute of the provider configuration: absent (""), a
\* path to a key file, or the JSON contents of one.
CredentialInputs == {"", "/keys/service-account.json", "{\"type\": \"service_account\"}"}

\* The credential of the client that siteverification.NewService(
\* context.Background()) builds: no option is passed, so it is the ambient
\* default one whatever the configuration says.
NewServiceCredentials(credentials) == DefaultCredentials

\* A provider on which Configure has not run yet.
ProviderInit ==
    /\ state = <<>>
    /\ op = "none"
    /\ pc = "idle"
    /\ data = NoData
    /\ reqID = <<>>
    /\ now = 0
    /\ deadline = NoDeadline
    /\ cancelled = FALSE
    /\ wake = 0
    /\ diags = <<>>
    /\ calls = 0
    /\ sleeps = 0
    /\ lat = 0
    /\ lastCall = NoCall
    /\ lastResp = NoResp
    /\ written = FALSE
    /\ plan = NoData
    /\ dsState = <<>>
    /\ provider = NoProvider

\* Config.Get, NewService, and the client handed to data sources and
\* resources.  NewService may fail (no ambient credentials found).
Configure ==
    /\ ~provider.configured
    /\ Invoke("configure")
    /\ \E c \in CredentialInputs, ok \in BOOLEAN :
          IF ok
          THEN /\ provider' = [configured |-> TRUE, Credentials |-> c,
                               client |-> NewServiceCredentials(c)]
               /\ UNCHANGED diags
          ELSE /\ provider' = [configured |-> FALSE, Credentials |-> c, client |-> ""]
               /\ diags' = Append(diags,
                      [summary |-> "Unable to create siteverification service",
                       what |-> "configure",
                       err |-> PlainErr(<<"could", "not", "find", "default", "credentials">>)])
    /\ pc' = "done"
    /\ UNCHANGED <<state, data, reqID, now, deadline, cancelled, wake, calls,
                   sleeps, lat, lastCall, lastResp, written, plan, dsState>>

(***************************************************************************)
(* DomainDataSource.Read and DNSTokenDataSource.Read                       *)
(***************************************************************************)
\* The default passed to timeouts.Read by both data sources.
DefaultDataReadTimeout == 60

DataTimeoutCfgs == { NoTimeouts, [NoTimeouts EXCEPT !.read = 20] }

DomainDataSourceModel(id, tm) ==
    [ID |-> id, RecordType |-> "", RecordName |-> <<>>, RecordValue |-> "",
     Timeouts |-> tm]

DNSTokenDataSourceModel(domain, tm) ==
    [Domain |-> domain, RecordType |-> "", RecordName |-> <<>>, RecordValue |-> "",
     ID |-> <<>>, Timeouts |-> tm]

\* The outcomes of x.Do() with no Context: the call runs under the
\* background context, which no deadline and no cancellation ends.
BackgroundCallOutcomes(responses) ==
    { [resp |-> r, at |-> now + l] : r \in responses, l \in Latencies }

\* A record whose record_name is left unset.
DomainDataRecord_NoName(d, token) ==
    [d EXCEPT !.RecordType = "TXT", !.RecordValue = token]

\* The fields DomainDataSource.Read sets after GetToken.
DomainDataRecord(d, token) ==
    [d EXCEPT !.RecordType = "TXT", !.RecordName = d.ID, !.RecordValue = token]

\* The fields DNSTokenDataSource.Read sets after GetToken.
DNSTokenDataRecord(d, token) ==
    [d EXCEPT !.RecordType = "TXT", !.RecordName = d.Domain,
              !.RecordValue = token, !.ID = d.Domain]

\* DomainDataSource.Read: Config.Get, timeouts.Read, context.WithTimeout.
DomainDataBegin ==
    /\ provider.client # ""
    /\ Invoke("data_domain")
    /\ \E d \in Domains, tm \in DataTimeoutCfgs :
          /\ plan' = DomainDataSourceModel(d, tm)
          /\ data' = plan'
          /\ deadline' = TimeoutsRead(tm, DefaultDataReadTimeout)
    /\ pc' = "attempting"
    /\ UNCHANGED <<state, reqID, dsState, provider>>

\* DomainDataSource.Read: GetToken(...).Do(), which is not given ctx, and on
\* success State.Set.
DomainDataGetToken ==
    /\ op = "data_domain" /\ pc = "attempting"
    /\ \E o \in BackgroundCallOutcomes(GetTokenResponses) :
          /\ Called("GetToken", data.ID, o)
          /\ IF ~o.resp.err.nil
             THEN /\ diags' = Append(diags, Diag("dnstoken", o.resp.err))
                  /\ UNCHANGED <<data, dsState, written>>
             ELSE /\ data' = DomainDataRecord(data, o.resp.Token)
                  /\ dsState' = <<data'>>
                  /\ written' = TRUE
                  /\ UNCHANGED diags
    /\ pc' = "done"
    /\ UNCHANGED <<state, op, reqID, deadline, cancelled, wake, sleeps, plan,
                   provider>>

\* DNSTokenDataSource.Read: Config.Get, timeouts.Read, context.WithTimeout.
DNSTokenDataBegin ==
    /\ provider.client # ""
    /\ Invoke("data_dns_token")
    /\ \E d \in Domains, tm \in DataTimeoutCfgs :
          /\ plan' = DNSTokenDataSourceModel(d, tm)
          /\ data' = plan'
          /\ deadline' = TimeoutsRead(tm, DefaultDataReadTimeout)
    /\ pc' = "attempting"
    /\ UNCHANGED <<state, reqID, dsState, provider>>

\* DNSTokenDataSource.Read: GetToken(...).Context(ctx).Do() and on success
\* State.Set.
DNSTokenDataGetToken ==
    /\ op = "data_dns_token" /\ pc = "attempting"
    /\ \E o \in CallOutcomes(GetTokenResponses) :
          /\ Called("GetToken", data.Domain, o)
          /\ IF ~o.resp.err.nil
             THEN /\ diags' = Append(diags, Diag("dnstoken", o.resp.err))
                  /\ UNCHANGED <<data, dsState, written>>
             ELSE /\ data' = DNSTokenDataRecord(data, o.resp.Token)
                  /\ dsState' = <<data'>>
                  /\ written' = TRUE
                  /\ UNCHANGED diags
    /\ pc' = "done"
    /\ UNCHANGED <<state, op, reqID, deadline, cancelled, wake, sleeps, plan,
                   provider>>

DataNext ==
    \/ Configure
    \/ DomainDataBegin
    \/ DomainDataGetToken
    \/ DNSTokenDataBegin
    \/ DNSTokenDataGetToken
    \/ Cancel
    \/ Return

DataSpec == ProviderInit /\ [][DataNext]_vars

(***************************************************************************)
(* Properties.                                                             *)
(***************************************************************************)
\* The handler has returned (its response is complete).
Returned == pc = "done"

\* In a finished Create or Delete every remote call failed with the
\* operation's transient error, or was cut off by the deadline.
OnlyTransientFailures ==
    \/ calls = sleeps
    \/ calls = sleeps + 1 /\ lastResp.err = DeadlineExceeded

\* The response reports the elapsed deadline as its error.
TimeoutReported ==
    /\ diags # <<>>
    /\ diags[Len(diags)].err = DeadlineExceeded

\* C1: a Create or Delete whose remote call keeps failing with the transient
\* error until the deadline elapses returns with an error reported (the
\* elapsed deadline), never with no error.
C1_TimeoutIsReported ==
    (/\ Returned
     /\ op \in {"create", "delete"}
     /\ ~cancelled
     /\ sleeps >= 1
     /\ OnlyTransientFailures
     /\ now >= deadline)
    => TimeoutReported

\* A well-formed percent-encoding: every '%' is followed by two hex digits.
HexChars ==
    {"0","1","2","3","4","5","6","7","8","9",
     "a","b","c","d","e","f","A","B","C","D","E","F"}

WellFormed(s) ==
    \A i \in 1..Len(s) :
        s[i] = "%" => (i + 2 <= Len(s) /\ s[i + 1] \in HexChars /\ s[i + 2] \in HexChars)

\* The decoded form of a well-formed identifier, position by position: the
\* characters kept are the '%' of each escape (replaced by the escaped byte)
\* and every character that is not one of the two digits after a '%'.
KeptPositions(s) ==
    { i \in 1..Len(s) :
        \/ s[i] = "%"
        \/ ~(i > 1 /\ s[i - 1] = "%") /\ ~(i > 2 /\ s[i - 2] = "%") }

KeptAt(s, k) ==
    CHOOSE i \in KeptPositions(s) :
        Cardinality({ j \in KeptPositions(s) : j < i }) = k - 1

DecodedChar(s, i) ==
    IF s[i] = "%" THEN ByteChar(16 * HexVal[s[i + 1]] + HexVal[s[i + 2]])
    ELSE IF s[i] = "+" THEN " "
    ELSE s[i]

Decoded(s) ==
    [k \in 1..Cardinality(KeptPositions(s)) |-> DecodedChar(s, KeptAt(s, k))]

\* C2: with a service that answers at once and fails N times with the
\* transient error before it succeeds, Create succeeds with the decoded id of
\* the successful Insert when N*60s < deadline, and fails with a timeout
\* error when N*60s >= deadline.
C2_TransientRetryBound ==
    (Returned /\ op = "create" /\ ~cancelled /\ lat = 0)
    => /\ (lastResp.err.nil /\ WellFormed(lastResp.Id))
            => /\ sleeps * 60 < deadline
               /\ diags = <<>>
               /\ state # <<>>
               /\ state[1].Id = Decoded(lastResp.Id)
       /\ (OnlyTransientFailures /\ sleeps * 60 < deadline) => FALSE
       /\ (OnlyTransientFailures /\ sleeps * 60 >= deadline) => TimeoutReported

\* The part of C2 about success, on its own: the stored id is the decoded id
\* of the successful Insert, and without latency no run gives up before
\* N*60s reaches the deadline.
C2_SuccessPart ==
    (Returned /\ op = "create" /\ ~cancelled /\ lat = 0)
    => /\ (lastResp.err.nil /\ WellFormed(lastResp.Id))
            => /\ sleeps * 60 < deadline
               /\ diags = <<>>
               /\ state # <<>>
               /\ state[1].Id = Decoded(lastResp.Id)
       /\ OnlyTransientFailures => sleeps * 60 >= deadline

\* The transient error of the running operation, stated on the message
\* itself: an API error, code 400, whose message is pre \o sub \o post.
TransientSubstring == IF op = "create" THEN errTokenNotFound ELSE errTokenExists

IsTransient(e) ==
    /\ e.api
    /\ e.Code = 400
    /\ \E i \in 1..(Len(e.Message) + 1), j \in 0..Len(e.Message) :
          /\ j - i + 1 = Len(TransientSubstring)
          /\ \A k \in 1..Len(TransientSubstring) : e.Message[i + k - 1] = TransientSubstring[k]

\* A step in which the handler made its Insert or Delete call.
RetryLoopCall == op \in {"create", "delete"} /\ calls' = calls + 1

\* C3: an Insert or Delete error is retried only if it is an API error with
\* code 400 whose message contains the operation's transient substring; any
\* other error ends the handler at once, with no sleep, no further remote
\* call, the error reported and no state written.
C3_RetryOnlyTransient ==
    [][ /\ RetryLoopCall =>
            /\ pc' = "waiting" => IsTransient(lastResp'.err)
            /\ (~lastResp'.err.nil /\ ~IsTransient(lastResp'.err)) =>
                  /\ pc' = "done"
                  /\ sleeps' = sleeps
                  /\ diags' = Append(diags, Diag(op, lastResp'.err))
                  /\ written' = FALSE
        /\ (op \in {"create", "delete"} /\ Returned) =>
              (pc' = "idle" /\ lastCall' = NoCall) ]_vars

\* Witness of C3: a first call answered with a 400 whose message is not the
\* transient one failed the handler with no sleep.
C3_Witness ==
    /\ Returned
    /\ op \in {"create", "delete"}
    /\ calls = 1
    /\ sleeps = 0
    /\ lastResp.err.api
    /\ lastResp.err.Code = 400
    /\ lastResp.err.Message = <<"Invalid", "value">>
    /\ Len(diags) = 1

\* C4: Create writes the record to state only when Insert succeeded and its
\* id was decoded; on every other outcome nothing is written and no id is
\* kept.
C4_StateOnlyOnSuccess ==
    op = "create" =>
        /\ written <=> (/\ Returned
                        /\ lastCall.method = "Insert"
                        /\ lastResp.err.nil
                        /\ WellFormed(lastResp.Id))
        /\ written => (state = <<data>> /\ diags = <<>>)
        /\ ~written => (state = <<>> /\ data.Id = <<>>)

\* Witness of C4: Insert succeeded with an id that does not decode, and the
\* handler returned with nothing stored.
C4_Witness ==
    /\ Returned
    /\ op = "create"
    /\ lastResp.err.nil
    /\ ~WellFormed(lastResp.Id)
    /\ ~written
    /\ state = <<>>

\* C5: once the deadline has elapsed no further Insert or Delete call is
\* issued, also when the deadline and the end of a sleep coincide: every
\* Insert or Delete call is issued under a context that is not yet done.
C5_NoCallAfterDeadline ==
    (lastCall.method \in {"Insert", "Delete"} /\ ~cancelled) => lastCall.live

\* C6: in Delete, a call failing with the TokenStillPresent error starts one
\* backoff of 60 seconds; a backoff that runs out leads 60 seconds later to
\* the next step of the loop, which is another Delete call; a call returning
\* no error ends the handler with no error reported; any other error ends it
\* with that error reported.
C6_DeleteSymmetric ==
    [][ op = "delete" =>
          /\ (calls' = calls + 1) =>
                /\ pc = "attempting"
                /\ lastCall'.method = "Delete"
                /\ lastCall'.arg = data.Id
                /\ IsTransient(lastResp'.err) =>
                      /\ pc' = "waiting"
                      /\ wake' = now' + 60
                      /\ sleeps' = sleeps + 1
                      /\ diags' = diags
                /\ lastResp'.err.nil => (pc' = "done" /\ diags' = <<>>)
                /\ (~lastResp'.err.nil /\ ~IsTransient(lastResp'.err)) =>
                      (pc' = "done" /\ diags' = <<Diag("delete", lastResp'.err)>>)
          /\ (pc = "waiting" /\ pc' = "attempting") =>
                (now' = now + 60 /\ calls' = calls /\ diags' = diags)
          /\ (pc = "attempting" /\ cancelled' = cancelled) => calls' = calls + 1
          /\ pc = "waiting" => pc' \in {"waiting", "attempting", "done"} ]_vars

\* Witness of C6: a Delete that was retried after a backoff and then
\* succeeded with no error reported.
C6_Witness ==
    /\ Returned
    /\ op = "delete"
    /\ sleeps >= 1
    /\ calls = sleeps + 1
    /\ lastResp.err.nil
    /\ diags = <<>>
    /\ now >= sleeps * 60

\* The identifier has the form dns://<domain>.
HasDnsScheme(id) ==
    /\ Len(id) >= 6
    /\ <<id[1], id[2], id[3], id[4], id[5], id[6]>> = <<"d", "n", "s", ":", "/", "/">>

\* C7: ImportState of an identifier without the dns:// prefix fails with an
\* error, issues no remote call and writes no state.
C7_ImportRejectsOtherIds ==
    (Returned /\ op = "import" /\ ~HasDnsScheme(reqID))
    => (calls = 0 /\ ~written /\ diags # <<>>)

\* The timeout the configuration sets for the running operation.
ConfiguredTimeout ==
    CASE op = "create" -> data.Timeouts.create
      [] op = "read"   -> data.Timeouts.read
      [] op = "delete" -> data.Timeouts.delete
      [] OTHER         -> Unset

\* C8 as stated: without an override a read is bounded by 60 seconds, a
\* create and a delete by 300 seconds.
C8_ReadDefaultIs60 ==
    (op \in {"create", "read", "delete"} /\ ConfiguredTimeout = Unset)
    => /\ deadline = (IF op = "read" THEN 60 ELSE 300)
       /\ now <= deadline

\* C8 (amended): without an override the resource's read, create and delete
\* are each bounded by 300 seconds, from the start of the handler to its
\* return, the retry loop included.
C8_DefaultsAre300 ==
    (op \in {"create", "read", "delete"} /\ ConfiguredTimeout = Unset)
    => /\ deadline = 300
       /\ now <= deadline

\* Witness of C8: a read without an override that ran under the 300 second
\* deadline, and took time.
C8_Witness ==
    /\ Returned
    /\ op = "read"
    /\ data.Timeouts.read = Unset
    /\ deadline = 300
    /\ now > 0

\* C9: a successful import of dns://D stores exactly {id: dns://D, domain: D,
\* token: T}, T being what GetToken returned, and GetToken was asked for D.
C9_ImportRoundTrip ==
    (Returned /\ op = "import" /\ diags = <<>> /\ HasDnsScheme(reqID))
    => LET D == [k \in 1..(Len(reqID) - 6) |-> reqID[k + 6]]
       IN  /\ lastCall.method = "GetToken"
           /\ lastCall.arg = D
           /\ lastResp.err.nil
           /\ calls = 2
           /\ state = <<[Id |-> reqID, Domain |-> D, Token |-> lastResp.Token,
                         Timeouts |-> NoTimeouts]>>

\* Witness of C9: dns://a imported with token abc123.
C9_Witness ==
    /\ Returned
    /\ op = "import"
    /\ reqID = <<"d", "n", "s", ":", "/", "/", "a">>
    /\ state # <<>>
    /\ state[1].Id = reqID
    /\ state[1].Domain = <<"a">>
    /\ state[1].Token = "abc123"

\* C10: Create stores the URL-decoded form of the id Insert returned (%3D
\* becomes '='); an id with malformed percent-encoding fails Create with one
\* error, without a retry and without state.
C10_IdIsUrlDecoded ==
    (Returned /\ op = "create" /\ lastCall.method = "Insert" /\ lastResp.err.nil)
    => /\ calls = sleeps + 1
       /\ IF WellFormed(lastResp.Id)
          THEN /\ diags = <<>>
               /\ state = <<[data EXCEPT !.Id = Decoded(lastResp.Id)]>>
               /\ state[1].Id = data.Id
               /\ lastResp.Id = <<"g", "s", "v", "%", "3", "D", "x", "y", "z">>
                     => state[1].Id = <<"g", "s", "v", "=", "x", "y", "z">>
          ELSE /\ Len(diags) = 1
               /\ diags[1].what = "urldecode"
               /\ state = <<>>
               /\ ~written

\* Witness of C10: the id gsv%3Dxyz was stored as gsv=xyz.
C10_Witness ==
    /\ Returned
    /\ op = "create"
    /\ lastResp.Id = <<"g", "s", "v", "%", "3", "D", "x", "y", "z">>
    /\ state # <<>>
    /\ state[1].Id = <<"g", "s", "v", "=", "x", "y", "z">>

\* C11: Update, whatever its plan, issues no remote call, reports no error
\* and leaves the stored record as it was.
C11_UpdateIsNoOp ==
    [][ (op = "update" \/ op' = "update") =>
            /\ state' = state
            /\ calls' = 0
            /\ lastCall' = NoCall
            /\ diags' = <<>>
            /\ written' = FALSE ]_vars

\* Witness of C11: an Update whose plan differs from the stored record has
\* returned.
C11_Witness ==
    /\ Returned
    /\ op = "update"
    /\ state # <<>>
    /\ plan # state[1]
    /\ plan.Token # state[1].Token
    /\ calls = 0
    /\ diags = <<>>

\* C12: after a successful Create the stored record is the planned record
\* with only its id changed: domain and token are the planned ones.
C12_CreateKeepsPlan ==
    (op = "create" /\ Returned /\ written)
    => /\ state # <<>>
       /\ state[1].Domain = plan.Domain
       /\ state[1].Token = plan.Token
       /\ state[1] = [plan EXCEPT !.Id = state[1].Id]

\* Witness of C12: a Create that stored a record with a non-empty id.
C12_Witness ==
    /\ Returned
    /\ op = "create"
    /\ written
    /\ state # <<>>
    /\ state[1].Id # <<>>
    /\ state[1].Token = "tok2"
    /\ state[1].Domain = <<"b", ".", "c">>

\* C14: a Read never changes the stored record: a successful Read stores id,
\* domain and token as they were in the prior state, a failed one stores
\* nothing, so two Reads in a row yield the same fields.
C14_ReadIsIdempotent ==
    [][ (op = "read" \/ op' = "read") =>
            /\ state' = state
            /\ (written' /\ ~written) =>
                  /\ state'[1].Id = data.Id
                  /\ state'[1].Domain = data.Domain
                  /\ state'[1].Token = data.Token ]_vars

\* Witness of C14: a successful Read of a record with an id and a token.
C14_Witness ==
    /\ Returned
    /\ op = "read"
    /\ lastResp.err.nil
    /\ written
    /\ state # <<>>
    /\ state[1].Id # <<>>
    /\ state[1].Token = "abc123"

\* C17: Read issues exactly one Get and never sleeps; a failure of that Get
\* is reported at once, as the only diagnostic, and nothing is written.
C17_ReadIsSingleShot ==
    op = "read" =>
        /\ pc \in {"attempting", "done"}
        /\ sleeps = 0
        /\ calls = (IF Returned THEN 1 ELSE 0)
        /\ Returned =>
              /\ lastCall.method = "Get"
              /\ lastCall.arg = state[1].Id
              /\ ~lastResp.err.nil =>
                    /\ diags = <<Diag("read", lastResp.err)>>
                    /\ ~written
              /\ lastResp.err.nil => (diags = <<>> /\ written)

\* Witness of C17: the Get failed with the error that Create would retry,
\* and Read returned after that one call with the error reported.
C17_Witness ==
    /\ Returned
    /\ op = "read"
    /\ calls = 1
    /\ lastResp.err = ApiErr(400, errTokenNotFound)
    /\ Len(diags) = 1
    /\ ~written

\* C18: whatever the service answers, a Create or a Delete returns, and it
\* makes at most floor(timeout / 60s) + 1 Insert or Delete calls.
C18_RetryLoopTerminates ==
    /\ [](op \in {"create", "delete"} => calls <= (deadline \div 60) + 1)
    /\ [](op \in {"create", "delete"} => <>Returned)

\* Witness of C18: a Create that returned after the largest number of calls
\* its timeout allows, all but the last answered with the transient error.
C18_Witness ==
    /\ Returned
    /\ op = "create"
    /\ sleeps >= 2
    /\ calls = (deadline \div 60) + 1

\* The domain a data-source Read was given.
GivenDomain == IF op = "data_domain" THEN plan.ID ELSE plan.Domain

\* C13: a successful data-source Read of a domain returns record_type TXT,
\* record_name the domain, record_value the token GetToken returned for that
\* domain, and an id equal to the domain; what was given is unchanged.
C13_DataSourceRecord ==
    (Returned /\ op \in {"data_domain", "data_dns_token"} /\ diags = <<>>)
    => /\ lastCall.method = "GetToken"
       /\ lastCall.arg = GivenDomain
       /\ lastResp.err.nil
       /\ dsState # <<>>
       /\ dsState[1].RecordType = "TXT"
       /\ dsState[1].RecordName = GivenDomain
       /\ dsState[1].RecordValue = lastResp.Token
       /\ dsState[1].ID = GivenDomain
       /\ dsState[1].Timeouts = plan.Timeouts
       /\ op = "data_dns_token" => dsState[1].Domain = GivenDomain

\* Witness of C13: the registered data source read domain b.c and got tok2.
C13_Witness ==
    /\ Returned
    /\ op = "data_domain"
    /\ plan.ID = <<"b", ".", "c">>
    /\ dsState # <<>>
    /\ dsState[1].RecordName = <<"b", ".", "c">>
    /\ dsState[1].RecordValue = "tok2"

\* C15: the Read of the registered data source is bounded by its read
\* timeout: its GetToken call ends, at the latest, when the deadline elapses.
C15_DataReadBounded ==
    op = "data_domain" => now <= deadline

\* C16: when credentials is set the API client is built from that
\* credential; only without it from the ambient default credentials.
C16_CredentialsUsed ==
    provider.configured =>
        provider.client = (IF provider.Credentials # ""
                           THEN provider.Credentials
                           ELSE DefaultCredentials)

====
